---- MODULE Spec2Model ----
(***************************************************************************)
(* The catalog crawl of kadaster.py: main() walks the paginated catalog,   *)
(* fans the items of one page out over a ThreadPoolExecutor, and each      *)
(* process_catalog_item resolves, extracts, normalizes, executes and       *)
(* saves one artifact.                                                     *)
(***************************************************************************)
EXTENDS Integers, Sequences, FiniteSets, TLC

\* ---------------------------------------------------------------- bounds
\* Size of the worker pool (KADASTER_MAX_WORKERS).
MAX_WORKERS == 2

\* Pages of the catalog that can carry items; every later page is empty,
\* fails or is malformed.
MaxPages == 2

\* A crawl runs against one of two remote services. The erratic one answers
\* every request in every way the code distinguishes and lists MaxItems rows
\* over the whole crawl; the steady one lists well-formed rows only, more of
\* them than the pool has threads (MaxSteadyItems over the crawl), and its
\* answers are well-formed when they come.
MaxItems == 2
MaxSteadyItems == 3

Services == {"erratic", "steady"}

\* ------------------------------------------------------------ environment
Ids == {"q1", "q2"}

\* item.get("id") of a row that carries no id: None, null once in JSON.
NoId == "null"

\* A row of a catalog page: a dict with name and owner, a dict that misses
\* one of them, or a value that is no dict at all. The steady service gives
\* every row its own id; of the erratic one a row may repeat the id of
\* another or carry none.
Items(s) ==
    IF s = "steady"
        THEN [shape : {"ok"}, id : Ids]
        ELSE [shape : {"ok"}, id : {"q1", NoId}]
                 \cup {[shape |-> "noName", id |-> "q1"],
                       [shape |-> "notDict", id |-> "q1"]}

\* ------------------------------------------------------------------ texts
\* A Python str is the sequence of its characters. The characters the code
\* treats specially have names; any other string of length one is a letter.
SP == " "
LF == "<LF>"
CR == "<CR>"
TAB == "<TAB>"
NBSP == "<U+00A0>"
ZWSP == "<U+200B>"
ZWNJ == "<U+200C>"
ZWJ == "<U+200D>"
BOM == "<U+FEFF>"
DQ == "\""
SQ == "'"
BS == "\\"
DASH == "-"
CARET == "^"

\* The characters str.strip(), str.rstrip() and \s take for whitespace.
Whitespace == {SP, LF, CR, TAB, NBSP}

\* None, and with it every value that is no str.
NoText == <<"None">>

\* isinstance(value, str)
IsStr(value) == value # NoText

\* Raw query text a detail record can carry: none, a text that normalizes
\* to nothing (only a dashes line), or a query of some kind. The steady
\* service has SELECT queries, the erratic one CONSTRUCT queries.
Dashes == <<DASH, DASH, DASH>>
SelectQuery == <<"S", "E", "L", "E", "C", "T">>
ConstructQuery == <<"C", "O", "N", "S", "T", "R", "U", "C", "T">>
QueryKinds == {SelectQuery, ConstructQuery}
RawQueries == {NoText, Dashes, ConstructQuery}

\* ---------------------------------------------------------- detail records
\* The part of a detail record extract_sparql_query reads. A payload is a
\* dict (with its query, sparql and q), a str (text) or anything else.
NoPayload ==
    [type |-> "none", text |-> NoText, query |-> NoText, sparql |-> NoText, q |-> NoText]

PayloadStr(text) == [NoPayload EXCEPT !.type = "str", !.text = text]

PayloadDict(query, sparql, q) ==
    [type |-> "dict", text |-> NoText, query |-> query, sparql |-> sparql, q |-> q]

Details(isDict, configIsDict, configPayload, query, sparql, payload) ==
    [isDict |-> isDict,
     requestConfig |-> [isDict |-> configIsDict, payload |-> configPayload],
     query |-> query, sparql |-> sparql, payload |-> payload]

\* A record without any candidate, and the places the service puts a text.
NoCandidates == Details(TRUE, FALSE, NoPayload, NoText, NoText, NoPayload)

\* The record that carries a raw text: nowhere when there is none, a dashes
\* line under requestConfig.payload.query, a SELECT under the top-level query
\* and a CONSTRUCT as the plain string requestConfig.payload.
Body(raw) ==
    CASE raw = NoText -> NoCandidates
      [] raw = Dashes ->
            Details(TRUE, TRUE, PayloadDict(raw, NoText, NoText), NoText, NoText, NoPayload)
      [] raw = ConstructQuery ->
            Details(TRUE, TRUE, PayloadStr(raw), NoText, NoText, NoPayload)
      [] OTHER ->
            Details(TRUE, FALSE, NoPayload, raw, NoText, NoPayload)

\* What GET /queries/{owner}/{name} can give back to fetch_query_details.
\*   failed : RequestException (transport error, timeout, non-2xx, a body
\*            that is no JSON)                               -> None
\*   empty  : 2xx with a falsy JSON body such as {}
\*   record : 2xx with a record; ownerIsDict is FALSE when "owner" (or
\*            "renderConfig") is present but is no dict, e.g. null
DetailResponses(s) ==
    IF s = "steady"
        THEN [kind : {"failed"}, ownerIsDict : {TRUE}, body : {NoCandidates}]
                 \cup [kind : {"record"}, ownerIsDict : {TRUE}, body : {Body(SelectQuery)}]
        ELSE [kind : {"failed", "empty"}, ownerIsDict : {TRUE}, body : {NoCandidates}]
                 \cup [kind : {"record"}, ownerIsDict : BOOLEAN,
                       body : {Body(raw) : raw \in RawQueries}]

\* What POST {sparql-endpoint} can give back to execute_sparql.
EndpointResponses(s) ==
    IF s = "steady" THEN {"json", "http_error"}
                    ELSE {"json", "non_json", "transport_error"}

\* What GET /facets/queries?page=n can give back to main.
\*   failed    : RequestException (transport error, timeout, non-2xx,
\*               a body that is no JSON)                    -> None
\*   falsy     : 2xx with a falsy body ({} or [])
\*   noResults : a dict whose "results" is absent or empty
\*   results   : a dict with a non-empty "results" list
\*   malformed : a truthy body that is no dict (no .get)
SeqsUpTo(S, n) == UNION {[1..k -> S] : k \in 1..n}

NoData == [kind |-> "unset", results |-> <<>>]

PageResponses(s, room) ==
    [kind : IF s = "steady" THEN {"failed", "noResults"}
                            ELSE {"failed", "falsy", "noResults", "malformed"},
     results : {<<>>}]
        \cup [kind : {"results"}, results : SeqsUpTo(Items(s), room)]

VARIABLES
    service,         \* the remote service this crawl runs against
    pc,              \* where main() is
    page,            \* main: page
    processed_count, \* main: processed_count
    catalog_data,    \* main: catalog_data, the last page response; its results
                     \* are the items the submit loop has still to go through
    units,           \* main: futures, one unit of work per submitted item
    collected,       \* futures as_completed has already yielded
    worker,          \* the pool's threads: the unit each one runs, 0 if idle
    session,         \* _thread_local.session of each thread of the pool
    sessionLog,      \* history: which thread has run with which session,
                     \* main (thread 0) and the threads of the current pool
    files,           \* the output directory: file name -> file
    oldFiles,        \* the file names the directory held when main began
    lastWrite,       \* history: id -> the data of the last save_entry that
                     \* ran to its end for that id
    seen,            \* history: id -> rows of this crawl's pages with that id
    fetchLog,        \* history: page numbers requested, in order
    pageLog,         \* history: the number of items of each page answered
    workLog,         \* history: pages for which a unit of work was submitted
    detailLog,       \* history: pages for which a detail fetch was made
    succeeded,       \* history: units that returned 1
    served,          \* history: items served by the catalog so far
    arg,             \* a function called on its own: the value it is given
    out              \* a function called on its own: what it returned, a
                     \* value per call

vars == <<service, pc, page, processed_count, catalog_data, units, collected, worker,
          session, sessionLog, files, oldFiles, lastWrite, seen, fetchLog, pageLog,
          workLog, detailLog, succeeded, served, arg, out>>

\* The variables of the crawl.
crawl == <<service, pc, page, processed_count, catalog_data, units, collected, worker,
           session, sessionLog, files, oldFiles, lastWrite, seen, fetchLog, pageLog,
           workLog, detailLog, succeeded, served>>

Workers == 1..MAX_WORKERS

\* ------------------------------------------------------- pure functions
\* str.lstrip(chars) and str.rstrip(chars)
RECURSIVE lstrip(_, _)
lstrip(text, chars) ==
    IF text = <<>> \/ Head(text) \notin chars THEN text ELSE lstrip(Tail(text), chars)

RECURSIVE rstrip(_, _)
rstrip(text, chars) ==
    IF text = <<>> \/ text[Len(text)] \notin chars
        THEN text
        ELSE rstrip(SubSeq(text, 1, Len(text) - 1), chars)

\* str.strip()
strip(text) == rstrip(lstrip(text, Whitespace), Whitespace)

\* text.startswith(part), and `part in text`
StartsWith(text, part) ==
    Len(text) >= Len(part) /\ SubSeq(text, 1, Len(part)) = part

Contains(text, part) ==
    \E k \in 1..(Len(text) - Len(part) + 1) : SubSeq(text, k, k + Len(part) - 1) = part

\* str.replace(old, new): the occurrences of old from left to right, without
\* overlap.
RECURSIVE replace(_, _, _)
replace(text, old, new) ==
    IF text = <<>> THEN <<>>
    ELSE IF StartsWith(text, old)
        THEN new \o replace(SubSeq(text, Len(old) + 1, Len(text)), old, new)
        ELSE <<Head(text)>> \o replace(Tail(text), old, new)

\* str.split("\n") and "\n".join(lines)
RECURSIVE split(_)
split(text) ==
    IF LF \notin {text[k] : k \in DOMAIN text}
        THEN <<text>>
        ELSE LET k == CHOOSE k \in DOMAIN text :
                          text[k] = LF /\ \A j \in 1..(k - 1) : text[j] # LF
             IN <<SubSeq(text, 1, k - 1)>> \o split(SubSeq(text, k + 1, Len(text)))

RECURSIVE join(_)
join(lines) ==
    IF lines = <<>> THEN <<>>
    ELSE IF Len(lines) = 1 THEN lines[1]
    ELSE lines[1] \o <<LF>> \o join(Tail(lines))

\* `isinstance(value, str) and value.strip()`
NonBlank(value) == IsStr(value) /\ strip(value) # <<>>

\* `for key in (...): ... return value`: the first of the values that is a
\* non-blank str, None when the loop finds none.
RECURSIVE FirstNonBlank(_)
FirstNonBlank(values) ==
    IF values = <<>> THEN NoText
    ELSE IF NonBlank(Head(values)) THEN Head(values)
    ELSE FirstNonBlank(Tail(values))

\* extract_sparql_query that looks at the top-level keys before requestConfig.
extract_sparql_query_topFirst(details) ==
    IF ~details.isDict THEN NoText
    ELSE
      LET request_config == details.requestConfig
          payload == request_config.payload
          inConfig ==
              IF ~request_config.isDict THEN NoText
              ELSE IF payload.type = "dict"
                  THEN FirstNonBlank(<<payload.query, payload.sparql, payload.q>>)
              ELSE IF payload.type = "str" /\ NonBlank(payload.text) THEN payload.text
              ELSE NoText
          topLevel == FirstNonBlank(<<details.query, details.sparql>>)
          inPayload ==
              IF details.payload.type = "dict" /\ NonBlank(details.payload.query)
                  THEN details.payload.query
                  ELSE NoText
      IN FirstNonBlank(<<topLevel, inConfig, inPayload>>)

\* extract_sparql_query: the text under requestConfig.payload (a dict's query,
\* sparql, q, or the payload itself when a str), else the top-level query or
\* sparql, else payload.query; the value as it is, untrimmed; None when none
\* of them is a non-blank str.
extract_sparql_query(details) ==
    IF ~details.isDict THEN NoText
    ELSE
      LET request_config == details.requestConfig
          payload == request_config.payload
          inConfig ==
              IF ~request_config.isDict THEN NoText
              ELSE IF payload.type = "dict"
                  THEN FirstNonBlank(<<payload.query, payload.sparql, payload.q>>)
              ELSE IF payload.type = "str" /\ NonBlank(payload.text) THEN payload.text
              ELSE NoText
          topLevel == FirstNonBlank(<<details.query, details.sparql>>)
          inPayload ==
              IF details.payload.type = "dict" /\ NonBlank(details.payload.query)
                  THEN details.payload.query
                  ELSE NoText
      IN IF inConfig # NoText THEN inConfig
         ELSE IF topLevel # NoText THEN topLevel
         ELSE inPayload

\* The match of ^-{3,}\^.*$ and of ^-{3,}\s*$ on a line.
DashCount(line) == Len(line) - Len(lstrip(line, {DASH}))

IsCaretMarker(line) ==
    LET rest == lstrip(line, {DASH})
    IN DashCount(line) >= 3 /\ rest # <<>> /\ Head(rest) = CARET

IsDashesLine(line) ==
    DashCount(line) >= 3 /\ lstrip(lstrip(line, {DASH}), Whitespace) = <<>>

KeepLine(line) == ~IsCaretMarker(line) /\ ~IsDashesLine(line)

\* re.sub(r"\n{4,}", "\n\n\n", text): a run of four or more newlines becomes
\* three.
RECURSIVE CollapseNewlines(_)
CollapseNewlines(text) ==
    IF text = <<>> THEN <<>>
    ELSE IF Head(text) # LF THEN <<Head(text)>> \o CollapseNewlines(Tail(text))
    ELSE LET rest == lstrip(text, {LF})
             run == Len(text) - Len(rest)
         IN (IF run >= 4 THEN <<LF, LF, LF>> ELSE SubSeq(text, 1, run))
                \o CollapseNewlines(rest)

\* clean_sparql_query: trims, drops a leading byte-order mark, unwraps one
\* pair of quotes when something is inside, turns literal \r\n, \n and \t
\* into newline and space, unifies line endings, replaces the no-break space
\* and drops the zero-width characters, trims each line at its end and drops
\* the caret-marker and dashes lines, collapses long runs of newlines, trims;
\* None for no str and when nothing is left.
clean_sparql_query(query) ==
    IF ~IsStr(query) THEN NoText
    ELSE
      LET stripped == lstrip(strip(query), {BOM})
          inner == IF Len(stripped) >= 2
                      THEN strip(SubSeq(stripped, 2, Len(stripped) - 1))
                      ELSE <<>>
          unquoted ==
              IF /\ Len(stripped) >= 2
                 /\ stripped[1] = stripped[Len(stripped)]
                 /\ stripped[1] \in {SQ, DQ}
                 /\ inner # <<>>
                  THEN inner
                  ELSE stripped
          newlines ==
              IF Contains(unquoted, <<BS, "n">>)
                  THEN replace(replace(unquoted, <<BS, "r", BS, "n">>, <<LF>>),
                               <<BS, "n">>, <<LF>>)
                  ELSE unquoted
          tabs == IF Contains(newlines, <<BS, "t">>)
                     THEN replace(newlines, <<BS, "t">>, <<SP>>)
                     ELSE newlines
          endings == replace(replace(tabs, <<CR, LF>>, <<LF>>), <<CR>>, <<LF>>)
          visible == replace(replace(replace(replace(endings,
                         <<NBSP>>, <<SP>>), <<ZWSP>>, <<>>), <<ZWNJ>>, <<>>), <<ZWJ>>, <<>>)
          trimmed == [k \in DOMAIN split(visible) |->
                         rstrip(split(visible)[k], Whitespace)]
          lines == SelectSeq(trimmed, KeepLine)
          normalized == strip(CollapseNewlines(join(lines)))
      IN IF normalized = <<>> THEN NoText ELSE normalized

\* ------------------------------------------------------- execute_sparql
\* text[:10000]
TextLimit == 10000

\* The text of a response body, by what it is and how many characters it
\* has, and its first n characters.
Text(of, len) == [of |-> of, len |-> len]

Prefix(text, n) == [text EXCEPT !.len = IF @ > n THEN n ELSE @]

\* response.json() of a body that is no JSON raises.
NotJson == [notJson |-> TRUE]

\* What session.post comes back with: an exception (failure names it), or a
\* response with its status, its body as JSON if it is JSON, its text and
\* its content-type header.
Response(failure, status_code, json, text, content_type) ==
    [failure |-> failure, status_code |-> status_code, json |-> json,
     text |-> text, content_type |-> content_type]

\* response.raise_for_status() raises for the 4xx and 5xx.
RaisesForStatus(response) == response.status_code \in 400..599

\* execute_sparql: its guard, then the dict for the answer. An exception of
\* session.post or raise_for_status gives the error dict, a JSON body is
\* returned as it is, any other body gives the non-JSON dict with the first
\* TextLimit characters.
execute_sparql(sparql_query, response) ==
    IF ~IsStr(sparql_query) \/ strip(sparql_query) = <<>>
        THEN [error |-> "No SPARQL query provided for execution"]
    ELSE IF response.failure # "none"
        THEN [error |-> "Execution failed: " \o response.failure]
    ELSE IF RaisesForStatus(response)
        THEN [error |-> "Execution failed: HTTPError"]
    ELSE IF response.json # NotJson
        THEN response.json
    ELSE [error |-> "Non-JSON response from SPARQL endpoint",
          status_code |-> response.status_code,
          content_type |-> response.content_type,
          text_sample |-> Prefix(response.text, TextLimit)]

\* The answers of the endpoint during a crawl, one of each kind.
Answer(kind) ==
    CASE kind = "json" ->
            Response("none", 200, [head |-> "vars", results |-> "bindings"],
                     Text("json", 50), "application/sparql-results+json")
      [] kind = "non_json" ->
            Response("none", 200, NotJson, Text("turtle", 50), "text/turtle")
      [] kind = "http_error" ->
            Response("none", 500, NotJson, Text("html", 50), "text/html")
      [] OTHER ->
            Response("ConnectionError", 0, NotJson, Text("none", 0), "none")

\* The dict execute_sparql returns for each answer of the endpoint to a
\* query that is there.
ExecutionResult(response) == execute_sparql(SelectQuery, Answer(response))

SkippedMarker == [info |-> "Skipped execution: No SPARQL code found in query details"]

NotRun == [unset |-> TRUE]

\* ------------------------------------------------------ the file names
\* str(query_id) inside the f-string: None prints as "None".
Str(query_id) == IF query_id = NoId THEN "None" ELSE query_id

\* save_entry: f"{query_id}.json", the name of the file inside OUTPUT_DIR.
FileName(query_id) == Str(query_id) \o ".json"

\* path.stem, the key a reader of the directory derives from a file's name.
Stem(filename) == SubSeq(filename, 1, Len(filename) - Len(".json"))

\* A file of the directory: data is the artifact it holds or is being given,
\* written tells how much of it is there: "none" between open(filename, 'w')
\* and json.dump, "whole" after an undisturbed dump, "mixed" when two calls
\* wrote the file at once and their bytes overlay each other.
File(written, data) == [written |-> written, data |-> data]

\* ------------------------------------------------------- units of work
\* A future of main's list. st is the position inside process_catalog_item;
\* the locals (item, details, sparql_code, execution_results) live until the
\* call returns or raises. detail, gets, posts and writes record what the
\* call has done: the outcome ("failed", "empty", "ok") and number of its
\* detail fetches, the number of its execution requests and of its
\* save_entry calls; row records the shape of the row it was submitted for.
\* raced tells that another call had the same file open while this one was
\* writing it.
NoDetails == [kind |-> "unset", ownerIsDict |-> TRUE, body |-> NoCandidates]
NoItem == [shape |-> "unset", id |-> "q1"]

PendingUnit(item) ==
    [st |-> "pending", item |-> item, row |-> item.shape, details |-> NoDetails,
     sparql_code |-> NoText, execution_results |-> NotRun, res |-> "none",
     detail |-> "none", gets |-> 0, posts |-> 0, writes |-> 0, raced |-> FALSE]

\* The future once the call has returned ("0", "1") or raised ("raised").
Finished(u, res) ==
    [u EXCEPT !.st = "done", !.res = res, !.item = NoItem, !.details = NoDetails,
              !.sparql_code = NoText, !.execution_results = NotRun, !.raced = FALSE]

Running(u) == u.st \in {"resolving", "resolved", "executed", "saving", "saved"}

InFlight == {i \in DOMAIN units : Running(units[i])}

Pending == {i \in DOMAIN units : units[i].st = "pending"}

Min(S) == CHOOSE x \in S : \A y \in S : x <= y

\* The thread that runs unit i, and the pool after that thread is done with it.
Release(i) == [w \in Workers |-> IF worker[w] = i THEN 0 ELSE worker[w]]

\* ------------------------------------------------------------- sessions
\* A requests.Session object, named after the thread that made it: thread w
\* of the pool opened for page p, or main (thread 0, pool 0).
Session(p, w) == [pool |-> p, thread |-> w]

\* main: session = requests.Session()
MainSession == Session(0, 0)

\* getattr(_thread_local, "session", None) of a thread that has made none.
NoSession == Session(-1, 0)

\* get_thread_session with one module-level session for all threads.
get_thread_session_shared(w) == Session(page, 1)

\* get_thread_session on pool thread w: the thread's own session, made on
\* the first call.
get_thread_session(w) ==
    IF session[w] = NoSession THEN Session(page, w) ELSE session[w]

\* ---------------------------------------------------------------- Init
\* What an earlier crawl has left for an id.
OldArtifact(query_id) ==
    [meta |-> [id |-> query_id],
     output_sparql |-> SelectQuery,
     execution_result_sample |-> SkippedMarker]

\* setup_environment makes OUTPUT_DIR when it is missing and takes it as it
\* is otherwise, with what an earlier crawl has saved. The erratic service is
\* crawled into a new directory, the steady one into the directory of an
\* earlier crawl that has saved q1.
OldStores(s) ==
    IF s = "steady"
        THEN {[x \in {FileName("q1")} |-> File("whole", OldArtifact("q1"))]}
        ELSE {[x \in {} |-> NotRun]}

NotStarted ==
    /\ service \in Services
    /\ pc = "loop"
    /\ page = 1
    /\ processed_count = 0
    /\ catalog_data = NoData
    /\ units = <<>>
    /\ collected = {}
    /\ worker = [w \in Workers |-> 0]
    /\ session = [w \in Workers |-> NoSession]
    /\ sessionLog = {}
    /\ files \in OldStores(service)
    /\ oldFiles = DOMAIN files
    /\ lastWrite = [id \in {files[x].data.meta.id : x \in DOMAIN files} |->
                        OldArtifact(id)]
    /\ seen = [id \in Ids \cup {NoId} |-> 0]
    /\ fetchLog = <<>>
    /\ pageLog = <<>>
    /\ workLog = {}
    /\ detailLog = {}
    /\ succeeded = 0
    /\ served = 0

\* The crawl: main() is about to run, no function is called on its own.
Init ==
    /\ NotStarted
    /\ arg = NoText
    /\ out = <<>>

\* ------------------------------------------------------------- main()
\* main: the top of `while True`, the request of fetch_catalog_page goes out.
StartFetch ==
    /\ pc = "loop"
    /\ pc' = "fetching"
    /\ fetchLog' = Append(fetchLog, page)
    /\ sessionLog' = sessionLog \cup {[thread |-> 0, session |-> MainSession]}
    /\ UNCHANGED session
    /\ UNCHANGED <<service, page, processed_count, catalog_data, units, collected, worker,
                   files, pageLog, workLog, detailLog, succeeded, served>>
    /\ UNCHANGED <<oldFiles, lastWrite, seen>>
    /\ UNCHANGED <<arg, out>>

\* AfterPage with `continue` in place of the `break` on empty results.
AfterPage_continueOnEmpty(data) ==
    CASE data.kind = "failed" -> "stopped"
      [] data.kind = "falsy" -> "stopped"
      [] data.kind = "noResults" -> "loop"
      [] data.kind = "malformed" -> "crashed"
      [] OTHER -> "dispatching"

\* AfterPage with a failed fetch tried again in place of the `break`.
AfterPage_retryOnFailure(data) ==
    CASE data.kind = "failed" -> "loop"
      [] data.kind = "falsy" -> "stopped"
      [] data.kind = "noResults" -> "stopped"
      [] data.kind = "malformed" -> "crashed"
      [] OTHER -> "dispatching"

\* Where main goes with the value fetch_catalog_page returned.
AfterPage(data) ==
    CASE data.kind = "failed" -> "stopped"
      [] data.kind = "falsy" -> "stopped"
      [] data.kind = "noResults" -> "stopped"
      [] data.kind = "malformed" -> "crashed"
      [] OTHER -> "dispatching"

\* The rows the catalog can still list on the current page.
Room ==
    IF page > MaxPages THEN 0
    ELSE (IF service = "steady" THEN MaxSteadyItems ELSE MaxItems) - served

\* main: fetch_catalog_page returns; break, raise, or open the pool.
PageResponse ==
    /\ pc = "fetching"
    /\ \E data \in PageResponses(service, Room) :
        /\ catalog_data' = data
        /\ pc' = AfterPage(data)
        /\ IF AfterPage(data) = "dispatching"
              THEN /\ units' = <<>>
                   /\ collected' = {}
                   /\ worker' = [w \in Workers |-> 0]
                   /\ served' = served + Len(data.results)
              ELSE UNCHANGED <<units, collected, worker, served>>
        /\ pageLog' = Append(pageLog, Len(data.results))
        /\ seen' = [id \in DOMAIN seen |->
                      seen[id] + Cardinality({k \in DOMAIN data.results :
                                                 /\ data.results[k].shape # "notDict"
                                                 /\ data.results[k].id = id})]
    /\ UNCHANGED <<service, page, processed_count, files, fetchLog, workLog, detailLog,
                   succeeded>>
    /\ UNCHANGED <<oldFiles, lastWrite>>
    /\ UNCHANGED <<session, sessionLog>>
    /\ UNCHANGED <<arg, out>>

\* main: executor.submit(process_catalog_item, item) for the next item.
Submit ==
    /\ pc = "dispatching"
    /\ units' = Append(units, PendingUnit(Head(catalog_data.results)))
    /\ catalog_data' = [catalog_data EXCEPT !.results = Tail(@)]
    /\ pc' = IF Len(catalog_data.results) = 1 THEN "awaiting" ELSE "dispatching"
    /\ workLog' = workLog \cup {page}
    /\ UNCHANGED <<service, page, processed_count, collected, worker, files, fetchLog,
                   pageLog, detailLog, succeeded, served>>
    /\ UNCHANGED <<oldFiles, lastWrite, seen>>
    /\ UNCHANGED <<session, sessionLog>>
    /\ UNCHANGED <<arg, out>>

\* Counted with one added for every future, whatever it holds.
Counted_everyFuture(u) == 1

\* main: what `processed_count += future.result()` under try/except adds.
Counted(u) == IF u.res = "1" THEN 1 ELSE 0

\* AfterFuture without the try/except around future.result().
AfterFuture_noExcept(u) == IF u.res = "raised" THEN "crashed" ELSE "awaiting"

\* main: where the loop over as_completed goes after a future.
AfterFuture(u) == "awaiting"

\* main: as_completed yields a finished future.
Collect(i) ==
    /\ pc = "awaiting"
    /\ i \in DOMAIN units
    /\ i \notin collected
    /\ units[i].st = "done"
    /\ collected' = collected \cup {i}
    /\ processed_count' = processed_count + Counted(units[i])
    /\ pc' = AfterFuture(units[i])
    /\ UNCHANGED <<service, page, catalog_data, units, worker, files, fetchLog, pageLog,
                   workLog, detailLog, succeeded, served>>
    /\ UNCHANGED <<oldFiles, lastWrite, seen>>
    /\ UNCHANGED <<session, sessionLog>>
    /\ UNCHANGED <<arg, out>>

\* AllCompleted that is content with the first completed future and does not
\* wait for the pool.
AllCompleted_firstOnly == \E i \in DOMAIN units : i \in collected

\* main: every future was yielded and the pool's shutdown(wait=True) is over.
AllCompleted ==
    /\ collected = DOMAIN units
    /\ \A w \in Workers : worker[w] = 0

\* NextPageNumber that skips a page.
NextPageNumber_skip(p) == p + 2

\* main: page += 1.
NextPageNumber(p) == p + 1

\* main: leave the `with` block, which ends the pool's threads and their
\* thread-locals with them, and move to the next page.
NextPage ==
    /\ pc = "awaiting"
    /\ AllCompleted
    /\ page' = NextPageNumber(page)
    /\ pc' = "loop"
    /\ session' = [w \in Workers |-> NoSession]
    /\ sessionLog' = {e \in sessionLog : e.thread = 0}
    /\ UNCHANGED <<service, processed_count, catalog_data, units, collected, worker,
                   files, fetchLog, pageLog, workLog, detailLog, succeeded, served>>
    /\ UNCHANGED <<oldFiles, lastWrite, seen>>
    /\ UNCHANGED <<arg, out>>

\* ------------------------------------------------ process_catalog_item
\* Idle of a pool that starts a thread per submitted call.
Idle_unbounded(w) == TRUE

\* A thread of the pool may take work when it runs nothing.
Idle(w) == worker[w] = 0

\* MissingNameOrOwner of a call that goes on without name or owner.
MissingNameOrOwner_ignored(item) == FALSE

\* `if not (q_name and q_owner)`
MissingNameOrOwner(item) == item.shape = "noName"

\* A pool thread takes the oldest queued call and runs it up to the detail
\* request: it gets its session, then a row that is no dict raises at
\* item.get and a row without name or owner returns 0.
Start(w) ==
    /\ Idle(w)
    /\ Pending # {}
    /\ LET i == Min(Pending)
           u == units[i]
       IN
        CASE u.item.shape = "notDict" ->
                /\ units' = [units EXCEPT ![i] = Finished(u, "raised")]
                /\ UNCHANGED worker
          [] u.item.shape # "notDict" /\ MissingNameOrOwner(u.item) ->
                /\ units' = [units EXCEPT ![i] = Finished(u, "0")]
                /\ UNCHANGED worker
          [] OTHER ->
                /\ units' = [units EXCEPT ![i].st = "resolving", ![i].gets = @ + 1]
                /\ worker' = [worker EXCEPT ![w] = i]
    /\ session' = [session EXCEPT ![w] = get_thread_session(w)]
    /\ sessionLog' = sessionLog \cup {[thread |-> w, session |-> get_thread_session(w)]}
    /\ detailLog' = IF \/ units[Min(Pending)].item.shape = "notDict"
                       \/ MissingNameOrOwner(units[Min(Pending)].item)
                       THEN detailLog ELSE detailLog \cup {page}
    /\ UNCHANGED <<service, pc, page, processed_count, catalog_data, collected, files,
                   fetchLog, pageLog, workLog, succeeded, served>>
    /\ UNCHANGED <<oldFiles, lastWrite, seen>>
    /\ UNCHANGED <<arg, out>>

\* AfterDetails without `if not details: return 0`.
AfterDetails_noCheck(u, response) ==
    [u EXCEPT !.st = "resolved",
              !.detail = response.kind,
              !.details = [response EXCEPT !.body = NoCandidates],
              !.sparql_code = clean_sparql_query(extract_sparql_query(response.body))]

\* `if not details: return 0`, else the text is extracted and cleaned. Of the
\* record the later code reads only whether owner is a dict.
AfterDetails(u, response) ==
    IF response.kind = "record"
        THEN [u EXCEPT !.st = "resolved",
                       !.detail = "ok",
                       !.details = [response EXCEPT !.body = NoCandidates],
                       !.sparql_code =
                           clean_sparql_query(extract_sparql_query(response.body))]
        ELSE Finished([u EXCEPT !.detail = response.kind], "0")

\* fetch_query_details returns; the text is extracted and cleaned.
DetailResponse(i) ==
    /\ i \in DOMAIN units
    /\ units[i].st = "resolving"
    /\ \E response \in DetailResponses(service) :
        /\ units' = [units EXCEPT ![i] = AfterDetails(units[i], response)]
        /\ worker' = IF response.kind = "record" THEN worker ELSE Release(i)
    /\ UNCHANGED <<service, pc, page, processed_count, catalog_data, collected, files,
                   fetchLog, pageLog, workLog, detailLog, succeeded, served>>
    /\ UNCHANGED <<oldFiles, lastWrite, seen>>
    /\ UNCHANGED <<session, sessionLog>>
    /\ UNCHANGED <<arg, out>>

\* `if sparql_code:`
HasCode(u) == u.sparql_code # NoText /\ u.sparql_code # <<>>

\* execute_sparql posts the query and classifies the answer; its guard for an
\* empty query never holds here, the cleaned text being non-empty.
Execute(i) ==
    /\ i \in DOMAIN units
    /\ units[i].st = "resolved"
    /\ HasCode(units[i])
    /\ \E response \in EndpointResponses(service) :
        units' = [units EXCEPT ![i].st = "executed",
                               ![i].posts = @ + 1,
                               ![i].execution_results = ExecutionResult(response)]
    /\ UNCHANGED <<service, pc, page, processed_count, catalog_data, collected, worker,
                   files, fetchLog, pageLog, workLog, detailLog, succeeded, served>>
    /\ UNCHANGED <<oldFiles, lastWrite, seen>>
    /\ UNCHANGED <<session, sessionLog>>
    /\ UNCHANGED <<arg, out>>

\* No code: the skipped marker, no request.
Skip(i) ==
    /\ i \in DOMAIN units
    /\ units[i].st = "resolved"
    /\ ~HasCode(units[i])
    /\ units' = [units EXCEPT ![i].st = "executed",
                              ![i].execution_results = SkippedMarker]
    /\ UNCHANGED <<service, pc, page, processed_count, catalog_data, collected, worker,
                   files, fetchLog, pageLog, workLog, detailLog, succeeded, served>>
    /\ UNCHANGED <<oldFiles, lastWrite, seen>>
    /\ UNCHANGED <<session, sessionLog>>
    /\ UNCHANGED <<arg, out>>

\* training_example, the fields of it the crawl decides.
Artifact(u) ==
    [meta |-> [id |-> u.item.id],
     output_sparql |-> u.sparql_code,
     execution_result_sample |-> u.execution_results]

\* open(filename, 'w') with the files that are there dropped.
open_w_alone(store, filename, data) ==
    [x \in {filename} |-> File("none", data)]

\* save_entry: open(filename, 'w') creates or truncates the file.
open_w(store, filename, data) ==
    [x \in DOMAIN store \cup {filename} |->
        IF x = filename THEN File("none", data) ELSE store[x]]

\* save_entry: json.dump has written data and the file is closed.
save_entry(store, query_id, data) ==
    [x \in DOMAIN store \cup {FileName(query_id)} |->
        IF x = FileName(query_id) THEN data ELSE store[x]]

\* The calls that are inside save_entry with that file open.
Saving(filename) ==
    {j \in DOMAIN units :
        units[j].st = "saving" /\ FileName(units[j].item.id) = filename}

\* training_example is built, which raises at .get when owner is no dict, and
\* save_entry opens the file.
Save(i) ==
    /\ i \in DOMAIN units
    /\ units[i].st = "executed"
    /\ IF units[i].details.ownerIsDict
          THEN LET filename == FileName(units[i].item.id) IN
               /\ files' = open_w(files, filename, Artifact(units[i]))
               /\ units' = [j \in DOMAIN units |->
                              IF j = i
                                 THEN [units[j] EXCEPT !.st = "saving",
                                                       !.writes = @ + 1,
                                                       !.raced = Saving(filename) # {}]
                              ELSE IF j \in Saving(filename)
                                 THEN [units[j] EXCEPT !.raced = TRUE]
                              ELSE units[j]]
               /\ UNCHANGED worker
          ELSE /\ units' = [units EXCEPT ![i] = Finished(units[i], "raised")]
               /\ worker' = Release(i)
               /\ UNCHANGED files
    /\ UNCHANGED <<service, pc, page, processed_count, catalog_data, collected, fetchLog,
                   pageLog, workLog, detailLog, succeeded, served>>
    /\ UNCHANGED <<oldFiles, lastWrite, seen>>
    /\ UNCHANGED <<session, sessionLog>>
    /\ UNCHANGED <<arg, out>>

\* save_entry: json.dump is through and the file is closed. The file holds
\* the data, unless another call wrote the same file meanwhile.
Written(i) ==
    /\ i \in DOMAIN units
    /\ units[i].st = "saving"
    /\ LET query_id == units[i].item.id
           data == Artifact(units[i])
       IN
        /\ \E written \in (IF units[i].raced THEN {"whole", "mixed"} ELSE {"whole"}) :
              files' = save_entry(files, query_id, File(written, data))
        /\ lastWrite' = [x \in DOMAIN lastWrite \cup {query_id} |->
                            IF x = query_id THEN data ELSE lastWrite[x]]
    /\ units' = [units EXCEPT ![i].st = "saved"]
    /\ UNCHANGED <<service, pc, page, processed_count, catalog_data, collected, worker,
                   fetchLog, pageLog, workLog, detailLog, succeeded, served>>
    /\ UNCHANGED <<oldFiles, seen>>
    /\ UNCHANGED <<session, sessionLog>>
    /\ UNCHANGED <<arg, out>>

\* Return of a call that does not wait for json.dump.
Return_beforeWritten(i) ==
    /\ i \in DOMAIN units
    /\ units[i].st \in {"saving", "saved"}
    /\ units' = [units EXCEPT ![i] = Finished(units[i], "1")]
    /\ worker' = Release(i)
    /\ succeeded' = succeeded + 1
    /\ UNCHANGED <<service, pc, page, processed_count, catalog_data, collected, files,
                   fetchLog, pageLog, workLog, detailLog, served>>
    /\ UNCHANGED <<oldFiles, lastWrite, seen>>
    /\ UNCHANGED <<session, sessionLog>>
    /\ UNCHANGED <<arg, out>>

\* The delay is over: return 1.
Return(i) ==
    /\ i \in DOMAIN units
    /\ units[i].st = "saved"
    /\ units' = [units EXCEPT ![i] = Finished(units[i], "1")]
    /\ worker' = Release(i)
    /\ succeeded' = succeeded + 1
    /\ UNCHANGED <<service, pc, page, processed_count, catalog_data, collected, files,
                   fetchLog, pageLog, workLog, detailLog, served>>
    /\ UNCHANGED <<oldFiles, lastWrite, seen>>
    /\ UNCHANGED <<session, sessionLog>>
    /\ UNCHANGED <<arg, out>>

\* ------------------------------------------------------------ the crawl
\* Positions in main's list of futures.
UnitIds == 1..(IF MaxItems > MaxSteadyItems THEN MaxItems ELSE MaxSteadyItems)

Next ==
    \/ StartFetch
    \/ PageResponse
    \/ Submit
    \/ \E w \in Workers : Start(w)
    \/ \E i \in UnitIds : DetailResponse(i)
    \/ \E i \in UnitIds : Execute(i)
    \/ \E i \in UnitIds : Skip(i)
    \/ \E i \in UnitIds : Save(i)
    \/ \E i \in UnitIds : Written(i)
    \/ \E i \in UnitIds : Return(i)
    \/ \E i \in UnitIds : Collect(i)
    \/ NextPage

Spec == Init /\ [][Next]_vars

\* ------------------------------------------- functions on their own
\* The crawl at rest while a function is called on its own.
Parked ==
    /\ NotStarted
    /\ service = "erratic"

\* The values a key of a detail record holds here: none (or no str), the
\* empty str, a blank str, a text, a text with blanks around it.
Values == {NoText, <<>>, <<SP>>, <<"a">>, <<SP, "b", SP>>}

\* The detail records extract_sparql_query is called with.
ConfigPayloads ==
    {NoPayload}
        \cup {PayloadStr(text) : text \in Values \ {NoText}}
        \cup {PayloadDict(v[1], v[2], v[3]) : v \in Values \X Values \X Values}

TopPayloads ==
    {NoPayload, PayloadStr(<<"a">>)}
        \cup {PayloadDict(query, NoText, NoText) : query \in Values}

DetailsInputs ==
    {Details(FALSE, FALSE, NoPayload, NoText, NoText, NoPayload)}
        \cup {Details(TRUE, FALSE, NoPayload, v[1], v[2], v[3]) :
                 v \in Values \X Values \X TopPayloads}
        \cup {Details(TRUE, TRUE, v[1], v[2], v[3], v[4]) :
                 v \in ConfigPayloads \X Values \X Values \X TopPayloads}

\* The keys a candidate text can stand under.
Keys == {"requestConfig.payload.query", "requestConfig.payload.sparql",
         "requestConfig.payload.q", "requestConfig.payload", "query", "sparql",
         "payload.query"}

\* The record with key set to value; to None, the key is removed. A key inside
\* a dict that is not there brings the dict with it.
Put(details, key, value) ==
    LET config == details.requestConfig
        inside == IF config.isDict /\ config.payload.type = "dict"
                     THEN config.payload
                     ELSE PayloadDict(NoText, NoText, NoText)
        WithConfigPayload(payload) ==
            [details EXCEPT !.requestConfig = [isDict |-> TRUE, payload |-> payload]]
    IN
    CASE key = "requestConfig.payload.query" ->
            WithConfigPayload([inside EXCEPT !.query = value])
      [] key = "requestConfig.payload.sparql" ->
            WithConfigPayload([inside EXCEPT !.sparql = value])
      [] key = "requestConfig.payload.q" ->
            WithConfigPayload([inside EXCEPT !.q = value])
      [] key = "requestConfig.payload" ->
            WithConfigPayload(IF IsStr(value) THEN PayloadStr(value) ELSE NoPayload)
      [] key = "query" -> [details EXCEPT !.query = value]
      [] key = "sparql" -> [details EXCEPT !.sparql = value]
      [] OTHER ->
            [details EXCEPT !.payload = PayloadDict(value, NoText, NoText)]

\* The candidates of a record in their order of priority, None for one that
\* is not there.
Candidates(details) ==
    LET config == details.requestConfig
        inside == IF details.isDict /\ config.isDict /\ config.payload.type = "dict"
                     THEN config.payload
                     ELSE NoPayload
    IN <<inside.query,
         inside.sparql,
         inside.q,
         IF details.isDict /\ config.isDict /\ config.payload.type = "str"
             THEN config.payload.text ELSE NoText,
         IF details.isDict THEN details.query ELSE NoText,
         IF details.isDict THEN details.sparql ELSE NoText,
         IF details.isDict /\ details.payload.type = "dict"
             THEN details.payload.query ELSE NoText>>

\* The places of the candidates that are non-blank strs.
NonBlankAt(details) ==
    {k \in DOMAIN Candidates(details) : NonBlank(Candidates(details)[k])}

\* extract_sparql_query is called on a record.
InitExtract ==
    /\ Parked
    /\ arg \in DetailsInputs
    /\ out = <<>>

Extract ==
    /\ out = <<>>
    /\ out' = <<extract_sparql_query(arg)>>
    /\ UNCHANGED <<crawl, arg>>

\* A key below the candidate that won is added, removed or changed, and the
\* function is called on the new record.
Rewrite ==
    /\ Len(out) = 1
    /\ NonBlankAt(arg) # {}
    /\ \E key \in Keys, value \in Values :
          LET changed == Put(arg, key, value) IN
          /\ changed # arg
          /\ \A k \in 1..Min(NonBlankAt(arg)) :
                Candidates(changed)[k] = Candidates(arg)[k]
          /\ arg' = changed
          /\ out' = Append(out, extract_sparql_query(changed))
    /\ UNCHANGED crawl

NextExtract == Extract \/ Rewrite

SpecExtract == InitExtract /\ [][NextExtract]_vars

\* The characters of the texts clean_sparql_query is called with, and the
\* length of the longest of them.
CleanAlphabet == {SP, LF, DQ, SQ, BS, "n", ZWSP, BOM, DASH, "a"}

MaxTextLen == 4

TextsUpTo(n) == UNION {[1..k -> CleanAlphabet] : k \in 0..n}

\* clean_sparql_query is called on a text, or on a value that is no str.
InitClean ==
    /\ Parked
    /\ arg \in TextsUpTo(MaxTextLen) \cup {NoText}
    /\ out = <<>>

\* The function is called, the first time on the text, then on what it
\* returned.
Normalize ==
    /\ Len(out) < 2
    /\ out' = Append(out, clean_sparql_query(IF out = <<>> THEN arg ELSE out[Len(out)]))
    /\ UNCHANGED <<crawl, arg>>

NextClean == Normalize

SpecClean == InitClean /\ [][NextClean]_vars

\* The texts clean_sparql_query is called with for its work on lines: texts
\* of blanks, newlines, dashes, carets, a byte-order mark and a letter, and
\* longer ones of the letter and newlines alone.
LineAlphabet == {SP, LF, DASH, CARET, BOM, "a"}

MaxLineTextLen == 5

MaxRunTextLen == 8

LineTexts ==
    UNION {[1..k -> LineAlphabet] : k \in 0..MaxLineTextLen}
        \cup UNION {[1..k -> {LF, "a"}] : k \in 0..MaxRunTextLen}

InitLines ==
    /\ Parked
    /\ arg \in LineTexts
    /\ out = <<>>

SpecLines == InitLines /\ [][NextClean]_vars

\* The answers execute_sparql is called with: those of a crawl, a JSON body
\* that is an error document of the endpoint, a status that is neither 2xx
\* nor an error for raise_for_status, and bodies around TextLimit characters.
JsonBodies ==
    {[head |-> "vars", results |-> "bindings"],
     [head |-> "none", boolean |-> "true"],
     [error |-> "Query timed out"]}

Responses ==
    {Response(failure, 0, NotJson, Text("none", 0), "none") :
         failure \in {"ConnectionError", "Timeout"}}
        \cup {Response("none", v[1], v[2], Text("body", v[3]), v[4]) :
                 v \in {200, 204, 304, 404, 500}
                         \X (JsonBodies \cup {NotJson})
                         \X {0, TextLimit - 1, TextLimit, TextLimit + 1}
                         \X {"text/turtle", "none"}}

\* execute_sparql is called with a query and gets an answer.
InitExecute ==
    /\ Parked
    /\ arg \in [sparql_query : {NoText, <<SP>>, SelectQuery}, response : Responses]
    /\ out = <<>>

ExecuteAlone ==
    /\ out = <<>>
    /\ out' = <<execute_sparql(arg.sparql_query, arg.response)>>
    /\ UNCHANGED <<crawl, arg>>

NextExecute == ExecuteAlone

SpecExecute == InitExecute /\ [][NextExecute]_vars

\* ------------------------------------------------ scripts/collect_rdf.py
\* JSON values that are no dict: null, and a list with its items. A str is
\* a Text, a dict is a record of its keys.
JsonNone == [isNone |-> TRUE]

List(items) == [isList |-> TRUE, items |-> items]

IsDict(value) == DOMAIN value \cap {"isNone", "isList", "of"} = {}

IsList(value) == "isList" \in DOMAIN value

IsText(value) == DOMAIN value = {"of", "len"}

\* A str of few characters, with its characters.
Chars(chars) == Text(chars, Len(chars))

\* Values of the content-type header.
TextTurtle == <<"t", "e", "x", "t", "/", "t", "u", "r", "t", "l", "e">>
TextTurtleUpper == <<"T", "e", "x", "t", "/", "T", "u", "r", "t", "l", "e">>
TextHtml == <<"t", "e", "x", "t", "/", "h", "t", "m", "l">>

\* str.lower()
Lowercase == [T |-> "t", B |-> "b"]

lower(text) ==
    [k \in DOMAIN text |->
        IF text[k] \in DOMAIN Lowercase THEN Lowercase[text[k]] ELSE text[k]]

\* text.count(part): the occurrences of part from left to right, without
\* overlap.
RECURSIVE count(_, _)
count(text, part) ==
    IF Len(text) < Len(part) THEN 0
    ELSE IF StartsWith(text, part)
        THEN 1 + count(SubSeq(text, Len(part) + 1, Len(text)), part)
        ELSE count(Tail(text), part)

\* is_rdf_execution_result: a dict without a truthy "error" that has
\* result_format "turtle" or a content_type with "turtle" in it. (The last
\* test of the function asks for "turtle" in content_type again and adds
\* nothing to the one before it.)
is_rdf_execution_result(execution_result) ==
    /\ IsDict(execution_result)
    /\ ~("error" \in DOMAIN execution_result /\ execution_result.error # "")
    /\ LET content_type ==
               IF "content_type" \notin DOMAIN execution_result
                      \/ execution_result.content_type \in {NoText, <<>>}
                   THEN <<>>
                   ELSE lower(execution_result.content_type)
           text_sample ==
               IF "text_sample" \in DOMAIN execution_result
                   THEN execution_result.text_sample ELSE JsonNone
       IN \/ /\ "result_format" \in DOMAIN execution_result
             /\ execution_result.result_format = "turtle"
          \/ Contains(content_type, <<"t", "u", "r", "t", "l", "e">>)
          \/ /\ IsText(text_sample)
             /\ text_sample.len > 0
             /\ Contains(content_type, <<"t", "u", "r", "t", "l", "e">>)

\* KADASTER_RDF_TEXT_LIMIT
max_chars == 3

\* compact_rdf_execution_result: the three hints as they are, and the
\* stripped text cut to limit characters with its counts.
compact_rdf_execution_result(execution_result, limit) ==
    LET kept == DOMAIN execution_result
                    \cap {"result_format", "status_code", "content_type"}
        text == IF "text_sample" \in DOMAIN execution_result
                       /\ IsText(execution_result.text_sample)
                    THEN strip(execution_result.text_sample.of)
                    ELSE <<>>
        sample == SubSeq(text, 1, IF Len(text) > limit THEN limit ELSE Len(text))
        counts == [text_sample_truncated |-> Len(text) > limit,
                   text_sample |-> sample,
                   text_sample_chars |-> Len(sample),
                   text_sample_lines |->
                       count(sample, <<LF>>) + (IF sample # <<>> THEN 1 ELSE 0),
                   statement_terminators_estimate |-> count(sample, <<SP, ".">>)]
    IN [key \in kept \cup DOMAIN counts |->
           IF key \in kept THEN execution_result[key] ELSE counts[key]]

\* sorted(source_dir.glob("*.json")): the names in the order of their
\* characters.
GlobOrder == <<"None.json", "q1.json", "q2.json">>

sorted(names) == SelectSeq(GlobOrder, LAMBDA x : x \in names)

\* The key of an item of the summary: str(meta.get("id") or path.stem).
SummaryKey(obj, filename) ==
    IF obj.meta.id # NoId THEN obj.meta.id ELSE Stem(filename)

\* A script that has not started on the directory it is given: its locals
\* scanned, found and items, the paths it has yet to read, and the summary
\* it writes at its end.
Collecting ==
    [pc |-> "start", todo |-> <<>>, scanned |-> 0, found |-> 0,
     items |-> [x \in {} |-> NotRun], summary |-> NotRun]

\* An artifact of the crawl with that execution result.
Example(query_id, execution_results) ==
    [meta |-> [id |-> query_id],
     output_sparql |-> ConstructQuery,
     execution_result_sample |-> execution_results]

\* The answers of the endpoint with a 2xx status, a text/turtle content
\* type and a text that is no JSON and not empty.
TurtleResponses ==
    {Response("none", v[1], NotJson, v[2], v[3]) :
        v \in {200, 203}
                \X {Chars(<<"a", SP, ".">>),
                    Chars(<<SP, "a", SP, ".", LF, "b", SP, ".", LF>>)}
                \X {TextTurtle, TextTurtleUpper}}

\* The execution results in the directory collect_rdf reads: those of
\* execute_sparql for Turtle answers, for an HTML page, for a JSON body and
\* for a failure, the marker of a skipped execution, and a Turtle result of
\* an earlier version, which has result_format and no error.
RdfResults ==
    {execute_sparql(ConstructQuery, response) : response \in TurtleResponses}
        \cup {execute_sparql(ConstructQuery,
                  Response("none", 200, NotJson, Chars(<<"h">>), TextHtml)),
              execute_sparql(ConstructQuery,
                  Response("none", 200, [head |-> "vars", results |-> "bindings"],
                           Chars(<<"j">>), NoText)),
              execute_sparql(ConstructQuery, Answer("transport_error")),
              SkippedMarker,
              [result_format |-> "turtle", status_code |-> 200,
               content_type |-> TextTurtle, text_sample |-> Chars(<<"a", SP, ".">>)]}

\* The files of a directory the crawl has written: each under the name of
\* its id, whole, or unreadable as JSON after two writes at once.
RdfFiles(query_id) ==
    {File("whole", Example(query_id, result)) : result \in RdfResults}
        \cup {File("mixed", Example(query_id, SkippedMarker))}

\* The directory the script is pointed at, which may not be there.
Directory(exists, paths) == [exists |-> exists, paths |-> paths]

RdfDirectories ==
    {Directory(FALSE, [x \in {} |-> NotRun])}
        \cup UNION {{Directory(TRUE, paths) :
                        paths \in {d \in [{FileName(query_id) : query_id \in present} ->
                                             UNION {RdfFiles(query_id) : query_id \in present}] :
                                     \A query_id \in present :
                                         d[FileName(query_id)] \in RdfFiles(query_id)}} :
                    present \in SUBSET {NoId, "q1"}}

InitRdf ==
    /\ Parked
    /\ arg \in RdfDirectories
    /\ out = Collecting

\* main of collect_rdf up to its loop: without the directory it returns 2,
\* else it lists the files.
RdfGlob ==
    /\ out.pc = "start"
    /\ out' = IF arg.exists
                 THEN [out EXCEPT !.pc = "scanning", !.todo = sorted(DOMAIN arg.paths)]
                 ELSE [out EXCEPT !.pc = "returned 2"]
    /\ UNCHANGED <<crawl, arg>>

\* One turn of the loop: a file that does not load as JSON and an artifact
\* whose execution result is no RDF are passed over, any other artifact is
\* put into items under its key with its execution result compacted.
RdfScan ==
    /\ out.pc = "scanning"
    /\ out.todo # <<>>
    /\ LET path == Head(out.todo)
           file == arg.paths[path]
           obj == file.data
           exec_result == obj.execution_result_sample
           key == SummaryKey(obj, path)
           compacted ==
               [k \in DOMAIN obj \cup {"execution_result_compacted"} |->
                   IF k = "execution_result_sample"
                       THEN compact_rdf_execution_result(exec_result, max_chars)
                   ELSE IF k = "execution_result_compacted" THEN TRUE
                   ELSE obj[k]]
       IN out' =
           IF file.written # "whole" \/ ~is_rdf_execution_result(exec_result)
               THEN [out EXCEPT !.todo = Tail(@), !.scanned = @ + 1]
               ELSE [out EXCEPT !.todo = Tail(@), !.scanned = @ + 1,
                                !.found = @ + 1,
                                !.items = [x \in DOMAIN @ \cup {key} |->
                                              IF x = key THEN compacted ELSE @[x]]]
    /\ UNCHANGED <<crawl, arg>>

\* After the loop the summary is written to kadaster_rdf_results.json and
\* main returns 0. (generated_at and source_dir are left out.)
RdfWrite ==
    /\ out.pc = "scanning"
    /\ out.todo = <<>>
    /\ out' = [out EXCEPT !.pc = "returned 0",
                          !.summary = [scanned_files |-> out.scanned,
                                       rdf_found |-> out.found,
                                       rdf_text_limit_applied |-> max_chars,
                                       included_count |-> Cardinality(DOMAIN out.items),
                                       items |-> out.items]]
    /\ UNCHANGED <<crawl, arg>>

SpecRdf == InitRdf /\ [][RdfGlob \/ RdfScan \/ RdfWrite]_vars

\* ------------------------------------------ scripts/collect_non_empty.py
\* is_non_empty_execution_result with the test of "error" left out.
is_non_empty_execution_result_anyError(execution_result) ==
    /\ IsDict(execution_result)
    /\ "results" \in DOMAIN execution_result
    /\ IsDict(execution_result.results)
    /\ "bindings" \in DOMAIN execution_result.results
    /\ IsList(execution_result.results.bindings)
    /\ Len(execution_result.results.bindings.items) > 0

\* is_non_empty_execution_result: a dict without a truthy "error" whose
\* "results" is a dict whose "bindings" is a list that is not empty.
is_non_empty_execution_result(execution_result) ==
    /\ IsDict(execution_result)
    /\ ~("error" \in DOMAIN execution_result /\ execution_result.error # "")
    /\ "results" \in DOMAIN execution_result
    /\ IsDict(execution_result.results)
    /\ "bindings" \in DOMAIN execution_result.results
    /\ IsList(execution_result.results.bindings)
    /\ Len(execution_result.results.bindings.items) > 0

\* KADASTER_BINDINGS_LIMIT
max_bindings == 2

\* compact_execution_result: head when it is a dict, results with the list
\* of bindings cut to limit and its counts (or as it is without such a
\* list), boolean and the four hints as they are.
compact_execution_result(execution_result, limit) ==
    LET has(key) == key \in DOMAIN execution_result
        head == {key \in {"head"} : has(key) /\ IsDict(execution_result[key])}
        results == {key \in {"results"} : has(key) /\ IsDict(execution_result[key])}
        hints == DOMAIN execution_result
                    \cap {"boolean", "result_format", "status_code",
                          "content_type", "text_sample"}
        bindings == execution_result.results.bindings.items
        cut == IF Len(bindings) < limit THEN Len(bindings) ELSE limit
    IN [key \in head \cup results \cup hints |->
           IF key = "results" /\ "bindings" \in DOMAIN execution_result.results
                              /\ IsList(execution_result.results.bindings)
               THEN [bindings_count |-> Len(bindings),
                     bindings_sample_count |-> cut,
                     bindings_truncated |-> Len(bindings) > limit,
                     bindings |-> List(SubSeq(bindings, 1, cut))]
               ELSE execution_result[key]]

\* The lists of bindings of a SELECT answer, from none to more than the
\* limit, and what else stands at "bindings" and at "results".
ResultsValues ==
    {[bindings |-> List(bindings)] :
        bindings \in {<<>>, <<"b1">>, <<"b2", "b1">>, <<"b1", "b2", "b3">>,
                      <<"b3", "b1", "b2", "b1">>}}
        \cup {[bindings |-> JsonNone], [distinct |-> FALSE], JsonNone}

\* The JSON bodies of the endpoint: SELECT answers, an ASK answer, a SELECT
\* answer that carries an error message or an empty one, and a list.
SelectBodies ==
    {[head |-> [vars |-> "s"], results |-> results] : results \in ResultsValues}
        \cup {[head |-> [vars |-> "s"], boolean |-> TRUE],
              [results |-> [bindings |-> List(<<"b1">>)], error |-> "Query timed out"],
              [results |-> [bindings |-> List(<<"b1">>)], error |-> ""],
              List(<<"b1">>)}

\* The execution results in the directory collect_non_empty reads: those of
\* execute_sparql for the JSON bodies, for a Turtle answer and for a
\* failure, and the marker of a skipped execution.
NonEmptyResults ==
    {execute_sparql(SelectQuery,
         Response("none", 200, body, Chars(<<"j">>), NoText)) : body \in SelectBodies}
        \cup {execute_sparql(ConstructQuery,
                  Response("none", 200, NotJson, Chars(<<"a", SP, ".">>), TextTurtle)),
              execute_sparql(SelectQuery, Answer("transport_error")),
              SkippedMarker}

NonEmptyFiles(query_id) ==
    {File("whole", Example(query_id, result)) : result \in NonEmptyResults}
        \cup {File("mixed", Example(query_id, SkippedMarker))}

NonEmptyDirectories ==
    {Directory(FALSE, [x \in {} |-> NotRun])}
        \cup UNION {{Directory(TRUE, paths) :
                        paths \in {d \in [{FileName(query_id) : query_id \in present} ->
                                             UNION {NonEmptyFiles(query_id) : query_id \in present}] :
                                     \A query_id \in present :
                                         d[FileName(query_id)] \in NonEmptyFiles(query_id)}} :
                    present \in SUBSET {NoId, "q1"}}

InitNonEmpty ==
    /\ Parked
    /\ arg \in NonEmptyDirectories
    /\ out = Collecting

\* main of collect_non_empty up to its loop: without the directory it
\* returns 2, else it lists the files.
NonEmptyGlob ==
    /\ out.pc = "start"
    /\ out' = IF arg.exists
                 THEN [out EXCEPT !.pc = "scanning", !.todo = sorted(DOMAIN arg.paths)]
                 ELSE [out EXCEPT !.pc = "returned 2"]
    /\ UNCHANGED <<crawl, arg>>

\* One turn of the loop: a file that does not load as JSON and an artifact
\* without bindings are passed over, any other artifact is put into items
\* under its key with its execution result compacted.
NonEmptyScan ==
    /\ out.pc = "scanning"
    /\ out.todo # <<>>
    /\ LET path == Head(out.todo)
           file == arg.paths[path]
           obj == file.data
           exec_result == obj.execution_result_sample
           key == SummaryKey(obj, path)
           compacted ==
               [k \in DOMAIN obj \cup {"execution_result_compacted"} |->
                   IF k = "execution_result_sample"
                       THEN compact_execution_result(exec_result, max_bindings)
                   ELSE IF k = "execution_result_compacted" THEN TRUE
                   ELSE obj[k]]
       IN out' =
           IF file.written # "whole" \/ ~is_non_empty_execution_result(exec_result)
               THEN [out EXCEPT !.todo = Tail(@), !.scanned = @ + 1]
               ELSE [out EXCEPT !.todo = Tail(@), !.scanned = @ + 1,
                                !.found = @ + 1,
                                !.items = [x \in DOMAIN @ \cup {key} |->
                                              IF x = key THEN compacted ELSE @[x]]]
    /\ UNCHANGED <<crawl, arg>>

\* After the loop the summary is written to KADASTER_NON_EMPTY_OUT and main
\* returns 0. (generated_at and source_dir are left out.)
NonEmptyWrite ==
    /\ out.pc = "scanning"
    /\ out.todo = <<>>
    /\ out' = [out EXCEPT !.pc = "returned 0",
                          !.summary = [scanned_files |-> out.scanned,
                                       non_empty_found |-> out.found,
                                       bindings_limit_applied |-> max_bindings,
                                       included_count |-> Cardinality(DOMAIN out.items),
                                       items |-> out.items]]
    /\ UNCHANGED <<crawl, arg>>

SpecNonEmpty == InitNonEmpty /\ [][NonEmptyGlob \/ NonEmptyScan \/ NonEmptyWrite]_vars

\* ------------------------------------------------ scripts/mcp_server.py
\* _TOKEN_RE, [a-z0-9][a-z0-9_-]{1,} without regard to case: the characters
\* a token starts with and those it goes on with.
TokenStart == {"a", "b", "g", "B", "T", "t", "1", "2"}

TokenRest == TokenStart \cup {"_", DASH}

\* _TOKEN_RE.findall(text): from left to right, at a start character that
\* is followed by a character of a token the longest run of such characters
\* is a token and the search goes on behind it; any other character is
\* passed over.
RECURSIVE findall(_)
findall(text) ==
    IF Len(text) < 2 THEN <<>>
    ELSE IF text[1] \in TokenStart /\ text[2] \in TokenRest
        THEN LET rest == lstrip(Tail(text), TokenRest)
                 token == SubSeq(text, 1, Len(text) - Len(rest))
             IN <<token>> \o findall(rest)
        ELSE findall(Tail(text))

\* `value or ""` of a str or None
OrEmpty(value) == IF IsStr(value) THEN value ELSE <<>>

\* _tokens: the set of the tokens of the text in lower case.
_tokens(text) ==
    LET found == findall(OrEmpty(text))
    IN {lower(found[k]) : k \in DOMAIN found}

\* An example of the cache as load_fewshot_examples makes it: id is a str
\* that may be empty, name a str or None, natural_language and sparql are
\* strs that are not blank, tags is a list of strs, final_score is a number
\* or None.
CacheExample(id, name, natural_language, sparql, tags, final_score) ==
    [id |-> id, name |-> name, natural_language |-> natural_language,
     sparql |-> sparql, tags |-> tags, final_score |-> final_score]

NoScore == -1

\* The score of an example for an intent: 6 for a tag that stands in the
\* intent and 2 for each token a tag shares with it, 1 for each token of
\* the description and 2 for each token of the name it shares, and 1 for
\* an example with a final_score.
RECURSIVE TagScore(_, _, _)
TagScore(tags, intent, intent_tokens) ==
    IF tags = <<>> THEN 0
    ELSE LET tag_s == lower(Head(tags))
         IN (IF tag_s = <<>> THEN 0
             ELSE (IF Contains(intent, tag_s) THEN 6 ELSE 0)
                      + 2 * Cardinality(intent_tokens \cap _tokens(tag_s)))
            + TagScore(Tail(tags), intent, intent_tokens)

Score(ex, intent, intent_tokens) ==
    TagScore(ex.tags, intent, intent_tokens)
        + Cardinality(intent_tokens \cap _tokens(ex.natural_language))
        + 2 * Cardinality(intent_tokens \cap _tokens(ex.name))
        + (IF ex.final_score # NoScore THEN 1 ELSE 0)

\* scored.sort(key=score, reverse=True): by falling score, examples of one
\* score in the order they had.
RECURSIVE SortedByScore(_, _, _)
SortedByScore(examples, intent, intent_tokens) ==
    IF examples = <<>> THEN <<>>
    ELSE LET last == examples[Len(examples)]
             front == SortedByScore(SubSeq(examples, 1, Len(examples) - 1),
                                    intent, intent_tokens)
             ahead == SelectSeq(front,
                          LAMBDA ex : Score(ex, intent, intent_tokens)
                                          >= Score(last, intent, intent_tokens))
             behind == SelectSeq(front,
                          LAMBDA ex : Score(ex, intent, intent_tokens)
                                          < Score(last, intent, intent_tokens))
         IN ahead \o <<last>> \o behind

\* example_key: the id when it is not blank, else the query text (the code
\* takes its hash), else the name in lower case.
example_key(ex) ==
    IF strip(ex.id) # <<>> THEN [id |-> strip(ex.id)]
    ELSE IF NonBlank(ex.sparql) THEN [sparql |-> strip(ex.sparql)]
    ELSE IF NonBlank(ex.name) THEN [name |-> lower(strip(ex.name))]
    ELSE [obj |-> ex]

\* One of the two loops over examples: an example whose key was seen is
\* passed over, any other is appended, and the loop ends once chosen has
\* top_k examples.
RECURSIVE TakeUnique(_, _, _)
TakeUnique(examples, chosen, top_k) ==
    IF examples = <<>> THEN chosen
    ELSE IF example_key(Head(examples)) \in {example_key(chosen[k]) : k \in DOMAIN chosen}
        THEN TakeUnique(Tail(examples), chosen, top_k)
    ELSE IF Len(chosen) + 1 >= top_k
        THEN Append(chosen, Head(examples))
        ELSE TakeUnique(Tail(examples), Append(chosen, Head(examples)), top_k)

\* examples[:n] for n that is not negative
FirstOf(examples, n) ==
    SubSeq(examples, 1, IF Len(examples) < n THEN Len(examples) ELSE n)

\* get_relevant_examples: for an intent without a token the first top_k
\* examples of the cache; else the unique examples by falling score, filled
\* up from the cache, cut to top_k.
get_relevant_examples(cache, user_intent, top_k) ==
    LET intent == lower(strip(OrEmpty(user_intent)))
        intent_tokens == _tokens(intent)
        scored == SortedByScore(cache, intent, intent_tokens)
        chosen == TakeUnique(scored, <<>>, top_k)
        padded == IF Len(chosen) < top_k THEN TakeUnique(cache, chosen, top_k) ELSE chosen
    IN IF intent_tokens = {}
          THEN FirstOf(cache, top_k)
          ELSE FirstOf(padded, top_k)

\* The examples of the caches: two with one id, two without an id and with
\* one query text, and one apart from them.
CacheExamples ==
    {CacheExample(<<"1">>, <<"b", "a", "g">>, <<"a", SP, "b", "a", "g">>, <<"1">>,
                  <<<<"b", "a", "g">>>>, 1),
     CacheExample(<<"1">>, NoText, <<"b", "t">>, <<"2">>, <<>>, NoScore),
     CacheExample(<<>>, <<"B", "t">>, <<"g", SP, "b", "t">>, <<"3">>,
                  <<<<"g">>, <<"b", "t">>>>, NoScore),
     CacheExample(<<>>, <<"b", "a", "g">>, <<"b", "a", "g">>, <<"3">>, <<>>, 1),
     CacheExample(<<"2">>, NoText, <<"b", "t", SP, "b", "a", "g">>, <<"1">>, <<<<"B", "T">>>>, NoScore)}

MaxCache == 3

MaxTopK == 2

Intents ==
    {NoText, <<>>, <<"g">>, <<SP, "B", "a", "g">>, <<"b", "t", SP, "b", "a", "g">>}

\* get_relevant_examples is called with an intent and top_k while the cache
\* holds some examples.
InitExamples ==
    /\ Parked
    /\ arg \in [EXAMPLES_CACHE : {<<>>} \cup SeqsUpTo(CacheExamples, MaxCache),
                user_intent : Intents,
                top_k : 0..MaxTopK]
    /\ out = <<>>

Relevant ==
    /\ out = <<>>
    /\ out' = <<get_relevant_examples(arg.EXAMPLES_CACHE, arg.user_intent, arg.top_k)>>
    /\ UNCHANGED <<crawl, arg>>

SpecExamples == InitExamples /\ [][Relevant]_vars

\* ------------------------------------------------------------ the claims
Last(q) == q[Len(q)]

EmptyPage == catalog_data.kind \in {"falsy", "noResults"}

FailedPage == catalog_data.kind = "failed"

\* C1: a page with an empty or absent results list stops the crawl: main is
\* Stopped, no unit of work and no detail fetch was made for that page, and
\* that page is the highest page ever requested.
C1_EmptyPageStops ==
    EmptyPage =>
        /\ pc = "stopped"
        /\ page \notin workLog
        /\ page \notin detailLog
        /\ \A k \in DOMAIN fetchLog : fetchLog[k] <= page
        /\ Last(fetchLog) = page

C1_Witness ==
    /\ EmptyPage
    /\ pc = "stopped"
    /\ page = 2
    /\ detailLog = {1}

\* C2: while any unit of work of page n has not finished, the latest page
\* requested is n: the request for page n+1 goes out only after every unit
\* of page n is done and every pool thread is idle.
C2_PageAfterUnits ==
    (\E i \in DOMAIN units : units[i].st # "done") \/ (\E w \in Workers : worker[w] # 0)
        => /\ pc \in {"dispatching", "awaiting"}
           /\ Last(fetchLog) = page
           /\ page \in workLog

C2_Witness ==
    /\ pc = "fetching"
    /\ page = 2
    /\ Len(units) = 3
    /\ units[1].res = "1"
    /\ units[2].res = "0"
    /\ units[3].res = "1"

\* C3: the units of work in flight never outnumber the pool's threads.
C3_PoolBound == Cardinality(InFlight) <= MAX_WORKERS

C3_Witness ==
    /\ Cardinality(InFlight) = MAX_WORKERS
    /\ Pending # {}
    /\ Len(units) > MAX_WORKERS

\* One more step of the call that unit i runs.
UnitStep(i) ==
    DetailResponse(i) \/ Execute(i) \/ Skip(i) \/ Save(i) \/ Written(i) \/ Return(i)

\* C4: an exception raised by one unit of work is contained: it is never
\* counted, main never dies of it, every other running unit of the page can
\* still take its next step, queued units can still start, finished ones
\* can still be collected and main can still go on to the next page.
C4_ExceptionContained ==
    (\E i \in DOMAIN units : units[i].res = "raised") =>
        /\ processed_count <= succeeded
        /\ pc = "crashed" => catalog_data.kind = "malformed"
        /\ \A j \in DOMAIN units : Running(units[j]) => ENABLED UnitStep(j)
        /\ (Pending # {} /\ \E w \in Workers : worker[w] = 0)
               => ENABLED (\E w \in Workers : Start(w))
        /\ \A j \in DOMAIN units :
               (pc = "awaiting" /\ units[j].st = "done" /\ j \notin collected)
                   => ENABLED Collect(j)
        /\ (pc = "awaiting" /\ \A j \in DOMAIN units : j \in collected)
               => ENABLED NextPage

C4_Witness ==
    /\ pc = "fetching"
    /\ page = 2
    /\ Len(units) = 2
    /\ units[1].res = "raised"
    /\ units[1].detail = "ok"
    /\ units[2].res = "1"
    /\ processed_count = 1

C6_PagesInOrder ==
    /\ \A k \in DOMAIN fetchLog : fetchLog[k] = k
    /\ Len(fetchLog) - Len(pageLog) = (IF pc = "fetching" THEN 1 ELSE 0)
    /\ pc = "stopped" =>
          /\ EmptyPage \/ FailedPage
          /\ Last(pageLog) = 0
          /\ Last(fetchLog) = page
          /\ \A k \in 1..(Len(pageLog) - 1) : pageLog[k] > 0

C6_Witness ==
    /\ pc = "stopped"
    /\ fetchLog = <<1, 2, 3>>
    /\ pageLog = <<1, 2, 0>>

\* C7: at Stopped the reported total is the number of units that returned
\* success; and when page 1 carried one item whose unit succeeded and page 2
\* carried none, one artifact was written, the total is 1 and page 3 was
\* never requested.
C7_TotalIsSuccesses ==
    pc = "stopped" =>
        /\ processed_count = succeeded
        /\ (pageLog = <<1, 0>> /\ EmptyPage /\ units[1].res = "1") =>
              /\ units[1].writes = 1
              /\ Cardinality({x \in DOMAIN files :
                                 \/ x \notin oldFiles
                                 \/ files[x].data # OldArtifact(files[x].data.meta.id)}) = 1
              /\ processed_count = 1
              /\ fetchLog = <<1, 2>>

C7_Witness ==
    /\ pc = "stopped"
    /\ pageLog = <<1, 0>>
    /\ EmptyPage
    /\ units[1].res = "1"
    /\ processed_count = 1

\* C8: every item with name and owner whose detail fetch gave a record ends
\* with one artifact written and counts as processed, whatever the endpoint
\* answered; and the result recorded for a failed endpoint carries an error
\* key.
C8_AlwaysProcessed ==
    \A i \in DOMAIN units :
        /\ (units[i].st = "done" /\ units[i].detail = "ok")
              => (units[i].writes = 1 /\ units[i].res = "1")
        /\ \A response \in {"http_error", "transport_error"} :
              "error" \in DOMAIN ExecutionResult(response)

\* C9: the endpoint is called exactly when cleaned text is present; without
\* it the skipped marker is recorded, an artifact is written and the item
\* counts as processed; with it the query is posted whatever its kind.
C9_ExecuteIffCode ==
    \A i \in DOMAIN units :
        /\ units[i].st \in {"executed", "saved"} =>
              /\ units[i].posts = (IF HasCode(units[i]) THEN 1 ELSE 0)
              /\ ~HasCode(units[i]) => units[i].execution_results = SkippedMarker
        /\ (units[i].st = "done" /\ units[i].detail = "ok" /\ units[i].posts = 0)
              => (units[i].writes = 1 /\ units[i].res = "1")

C11_NamelessRowSkipped ==
    /\ \A i \in DOMAIN units :
          (units[i].row = "noName" /\ units[i].st # "pending") =>
              /\ units[i].st = "done"
              /\ units[i].res = "0"
              /\ units[i].detail = "none"
              /\ units[i].gets = 0
              /\ units[i].posts = 0
              /\ units[i].writes = 0
              /\ Counted(units[i]) = 0
    /\ processed_count <= succeeded

C11_Witness ==
    /\ pc = "awaiting"
    /\ Len(units) = 2
    /\ units[1].row = "noName"
    /\ units[1].st = "done"
    /\ units[2].res = "1"
    /\ collected = {1, 2}
    /\ processed_count = 1

\* The files of the directory nobody is writing at the moment.
AtRest == {x \in DOMAIN files : Saving(x) = {}}

\* C12: the directory holds one file per id that was ever written; a file
\* that is not being written holds, whole, the data of the last save_entry
\* that ran to its end for its id; and the key derived from a file's name
\* is the meta.id inside the file.
C12_OneFilePerId ==
    /\ Cardinality(DOMAIN lastWrite) = Cardinality({FileName(id) : id \in DOMAIN lastWrite})
    /\ \A id \in DOMAIN lastWrite :
          /\ FileName(id) \in DOMAIN files
          /\ FileName(id) \in AtRest =>
                files[FileName(id)] = File("whole", lastWrite[id])
    /\ \A x \in AtRest : x \in {FileName(id) : id \in DOMAIN lastWrite}
    /\ \A x \in DOMAIN files : Stem(x) = files[x].data.meta.id

\* C13: two calls that are inside save_entry at the same time write
\* different files.
C13_WritersDisjoint ==
    \A i, j \in DOMAIN units :
        (i # j /\ units[i].st = "saving" /\ units[j].st = "saving")
            => FileName(units[i].item.id) # FileName(units[j].item.id)

\* The rows this crawl's pages have listed for the id a file is named after.
RowsFor(x) == {id \in DOMAIN seen : FileName(id) = x /\ seen[id] > 0}

\* C19, as claimed: once the crawl has stopped every file of the directory
\* belongs to exactly one row the crawl has listed; and no file is ever
\* deleted: the files the crawl found and the file of every id ever written
\* are there.
C19_FilesOfThisCrawl ==
    /\ pc = "stopped" =>
          \A x \in DOMAIN files : \E id \in RowsFor(x) : seen[id] = 1
    /\ oldFiles \subseteq DOMAIN files
    /\ \A id \in DOMAIN lastWrite : FileName(id) \in DOMAIN files

\* C19, amended: every file of the directory was there when the crawl began
\* or is named after the id of a row the crawl has listed, be it of several
\* rows; and no file is ever deleted: the files the crawl found and the file
\* of every id ever written are there.
C19_FilesKept ==
    /\ \A x \in DOMAIN files : x \in oldFiles \/ RowsFor(x) # {}
    /\ oldFiles \subseteq DOMAIN files
    /\ \A id \in DOMAIN lastWrite : FileName(id) \in DOMAIN files

C19_Witness ==
    /\ pc = "stopped"
    /\ oldFiles = {FileName("q1")}
    /\ DOMAIN files = {FileName("q1"), FileName("q2")}
    /\ files[FileName("q1")].data # OldArtifact("q1")
    /\ seen["q1"] = 1

\* C20: a pool thread has a session exactly when it has started a call,
\* every call it ran got that same session, no session was ever used by two
\* threads, and main's session was used by main only.
C20_SessionPerThread ==
    /\ \A w \in Workers :
          session[w] # NoSession <=> \E e \in sessionLog : e.thread = w
    /\ \A e \in sessionLog : e.thread \in Workers => e.session = session[e.thread]
    /\ \A e1, e2 \in sessionLog : e1.session = e2.session => e1.thread = e2.thread
    /\ \A e \in sessionLog : e.session = MainSession => e.thread = 0

C20_Witness ==
    /\ pc = "awaiting"
    /\ Len(units) > MAX_WORKERS
    /\ \A i \in DOMAIN units : units[i].res = "1"
    /\ \A w \in Workers : session[w] = Session(page, w)
    /\ Cardinality(sessionLog) = 1 + MAX_WORKERS

\* C18: no answer of the catalog, of a detail request or of the endpoint
\* ends main through an uncaught error: main is never crashed, and a crawl
\* that can take no further step is Stopped.
C18_NeverAborts ==
    /\ pc # "crashed"
    /\ ~(ENABLED Next) => pc = "stopped"

\* C14: what extract_sparql_query returns is the first candidate, in the
\* order requestConfig.payload.query, .sparql, .q, requestConfig.payload as a
\* str, query, sparql, payload.query, that is a non-blank str, untrimmed,
\* and None when there is none; and after a change below the winning
\* candidate it returns what it returned before.
C14_FirstCandidateWins ==
    /\ Len(out) >= 1 =>
          out[Len(out)] = (IF NonBlankAt(arg) = {} THEN NoText
                           ELSE Candidates(arg)[Min(NonBlankAt(arg))])
    /\ Len(out) = 2 => out[2] = out[1]

C14_Witness ==
    /\ Len(out) = 2
    /\ out[1] = <<SP, "b", SP>>
    /\ Candidates(arg)[1] = <<SP>>
    /\ Candidates(arg)[2] = <<>>
    /\ Candidates(arg)[5] = <<SP, "b", SP>>
    /\ Candidates(arg)[6] = <<"a">>
    /\ Candidates(arg)[7] = <<"a">>

\* C15: clean_sparql_query called on what it returned returns the same.
C15_Idempotent == Len(out) = 2 => out[2] = out[1]

\* A pair of matching quotes with nothing or only whitespace inside.
QuotedBlank(text) ==
    /\ Len(text) >= 2
    /\ text[1] = text[Len(text)]
    /\ text[1] \in {SQ, DQ}
    /\ strip(SubSeq(text, 2, Len(text) - 1)) = <<>>

\* C16: clean_sparql_query never returns the empty str, and it returns None,
\* so that `if sparql_code:` fails and nothing is executed, for a text that
\* is all whitespace and for a pair of matching quotes with nothing or only
\* whitespace inside.
C16_BlankIsAbsent ==
    Len(out) >= 1 =>
        /\ out[1] # <<>>
        /\ (IsStr(arg) /\ (strip(arg) = <<>> \/ QuotedBlank(arg))) => out[1] = NoText

\* The three classes of answers by the claim: error for a failure of the
\* transport and for a status that is not 2xx, else success for a JSON body
\* and non_json for any other.
ClassOf(response) ==
    IF response.failure # "none" \/ response.status_code \notin 200..299 THEN "error"
    ELSE IF response.json # NotJson THEN "success"
    ELSE "non_json"

\* C17: for a query that is there, the result of an error answer is the
\* error dict alone; of a success the JSON body as it is; of a non_json
\* answer the dict with status code, content-type and the first TextLimit
\* characters of the text, all of the text when it is no longer; and the
\* keys of the result tell the class: no answer of another class gives a
\* result with the same keys.
C17_ThreeShapes ==
    (Len(out) = 1 /\ NonBlank(arg.sparql_query)) =>
        LET response == arg.response
            result == out[1]
        IN
        /\ ClassOf(response) = "error" => DOMAIN result = {"error"}
        /\ ClassOf(response) = "success" => result = response.json
        /\ ClassOf(response) = "non_json" =>
              /\ DOMAIN result = {"error", "status_code", "content_type", "text_sample"}
              /\ result.status_code = response.status_code
              /\ result.content_type = response.content_type
              /\ result.text_sample = Prefix(response.text, TextLimit)
              /\ response.text.len <= TextLimit => result.text_sample = response.text
        /\ \A other \in Responses :
              ClassOf(other) # ClassOf(response)
                  => DOMAIN execute_sparql(arg.sparql_query, other) # DOMAIN result

\* C21: when collect_rdf has run over a directory, every artifact in it
\* whose execution result is what execute_sparql returns for a 2xx
\* text/turtle answer with a text that is not empty is accepted by
\* is_rdf_execution_result and is an item of the RDF summary.
C21_TurtleSelected ==
    out.pc = "returned 0" =>
        \A path \in DOMAIN arg.paths :
            LET file == arg.paths[path]
                result == file.data.execution_result_sample
            IN (/\ file.written = "whole"
                /\ \E response \in TurtleResponses :
                       result = execute_sparql(file.data.output_sparql, response))
                   => /\ is_rdf_execution_result(result)
                      /\ SummaryKey(file.data, path) \in DOMAIN out.summary.items

\* The bindings an execution result holds: the items of results.bindings
\* when that is a list, else none.
BindingsOf(result) ==
    IF /\ IsDict(result)
       /\ "results" \in DOMAIN result
       /\ IsDict(result.results)
       /\ "bindings" \in DOMAIN result.results
       /\ IsList(result.results.bindings)
       THEN result.results.bindings.items
       ELSE <<>>

\* An error message stands in the execution result.
HasError(result) ==
    IsDict(result) /\ "error" \in DOMAIN result /\ result.error # ""

\* C22: when collect_non_empty has run over a directory, the items of its
\* summary are the artifacts with bindings and without an error, no more and
\* no less; and each item has the first min(count, cap) bindings of its
\* artifact in their order, the count of all of them as bindings_count, and
\* bindings_truncated exactly when that count is above the cap.
C22_NonEmptySelected ==
    out.pc = "returned 0" =>
        LET artifacts == {path \in DOMAIN arg.paths : arg.paths[path].written = "whole"}
            Original(path) == arg.paths[path].data.execution_result_sample
            Selected(path) == BindingsOf(Original(path)) # <<>> /\ ~HasError(Original(path))
            Key(path) == SummaryKey(arg.paths[path].data, path)
            items == out.summary.items
        IN /\ DOMAIN items = {Key(path) : path \in {p \in artifacts : Selected(p)}}
           /\ \A path \in artifacts :
                 Selected(path) =>
                     LET original == BindingsOf(Original(path))
                         emitted == items[Key(path)].execution_result_sample.results
                     IN /\ emitted.bindings_count = Len(original)
                        /\ emitted.bindings_truncated = (Len(original) > max_bindings)
                        /\ Len(emitted.bindings.items) =
                               (IF Len(original) < max_bindings
                                   THEN Len(original) ELSE max_bindings)
                        /\ \A k \in DOMAIN emitted.bindings.items :
                               emitted.bindings.items[k] = original[k]

\* An artifact with more bindings than the cap and one without bindings
\* have been read, and the summary is written.
C22_Witness ==
    /\ out.pc = "returned 0"
    /\ out.summary.scanned_files = 2
    /\ out.summary.included_count = 1
    /\ \E path \in DOMAIN arg.paths :
          /\ arg.paths[path].written = "whole"
          /\ Len(BindingsOf(arg.paths[path].data.execution_result_sample)) > max_bindings
          /\ ~HasError(arg.paths[path].data.execution_result_sample)

\* C23: for every intent and every top_k the examples get_relevant_examples
\* returns are at most top_k, no two of them have one key, none has a lower
\* score than one behind it, and they are exactly top_k when the cache holds
\* top_k or more examples with keys of their own.
C23_TopKUnique ==
    Len(out) = 1 =>
        LET chosen == out[1]
            intent == lower(strip(OrEmpty(arg.user_intent)))
            score(ex) == Score(ex, intent, _tokens(intent))
            keys == {example_key(arg.EXAMPLES_CACHE[k]) : k \in DOMAIN arg.EXAMPLES_CACHE}
        IN /\ Len(chosen) <= arg.top_k
           /\ \A i, j \in DOMAIN chosen :
                  i < j => /\ example_key(chosen[i]) # example_key(chosen[j])
                           /\ score(chosen[i]) >= score(chosen[j])
           /\ Cardinality(keys) >= arg.top_k => Len(chosen) = arg.top_k

\* How far a call of process_catalog_item has come: the detail request is
\* out, the details are there with the text extracted and cleaned, the
\* execution is done or skipped, the file is open, the file is written,
\* the call is over.
Rank(st) ==
    CASE st = "pending" -> 0
      [] st = "resolving" -> 1
      [] st = "resolved" -> 2
      [] st = "executed" -> 3
      [] st = "saving" -> 4
      [] st = "saved" -> 5
      [] OTHER -> 6

\* C24: a call makes at most one detail request, one execution request and
\* one write; it never steps back; the detail request is its first step,
\* the text is extracted and cleaned when the details arrive, the execution
\* request comes after that and before the write, the write after the
\* execution is done or skipped and only with details that were fetched,
\* and it returns 1 only from the state in which its file is written.
C24_StepsInOrder ==
    /\ [](\A i \in DOMAIN units :
             LET u == units[i]
             IN /\ u.gets <= 1 /\ u.posts <= 1 /\ u.writes <= 1
                /\ u.posts = 1 => u.gets = 1 /\ u.detail = "ok"
                /\ u.writes = 1 => u.gets = 1 /\ u.detail = "ok"
                /\ u.st \in {"saving", "saved"} => u.execution_results # NotRun
                /\ u.res = "1" => u.writes = 1)
    /\ [][\A i \in DOMAIN units \cap DOMAIN units' :
             LET u == units[i]
                 v == units'[i]
             IN /\ Rank(v.st) >= Rank(u.st)
                /\ v.gets > u.gets => u.st = "pending" /\ v.st = "resolving"
                /\ (v.sparql_code # u.sparql_code /\ v.st # "done")
                       => u.st = "resolving" /\ v.st = "resolved"
                /\ v.posts > u.posts => u.st = "resolved" /\ v.st = "executed"
                /\ (u.execution_results = NotRun /\ v.execution_results # NotRun)
                       => u.st = "resolved" /\ v.st = "executed"
                /\ v.writes > u.writes => u.st = "executed" /\ v.st = "saving"
                /\ (v.res = "1" /\ u.res # "1") => u.st = "saved"]_vars

\* A call has made its detail request, its execution request and its
\* write and has returned 1.
C24_Witness ==
    \E i \in DOMAIN units :
        /\ units[i].res = "1"
        /\ units[i].gets = 1
        /\ units[i].posts = 1
        /\ units[i].writes = 1

\* The crawl with its steps taken in the end: every request comes back, with
\* an answer or with the failure its timeout makes of it, so a page fetch and
\* the step of a call that waits for a request are taken; main and the
\* threads of the pool are scheduled, so their steps are taken too.
Fairness ==
    /\ WF_vars(StartFetch)
    /\ WF_vars(PageResponse)
    /\ WF_vars(Submit)
    /\ WF_vars(NextPage)
    /\ \A w \in Workers : WF_vars(Start(w))
    /\ \A i \in UnitIds : WF_vars(UnitStep(i)) /\ WF_vars(Collect(i))

SpecFair == Spec /\ Fairness

\* C25: with every request coming back and a catalog that runs out of rows,
\* main reaches Stopped in the end, where its total is the number of calls
\* that returned 1; and from Stopped on there is no page request, no detail
\* request, no execution and no write.
C25_ReachesStopped ==
    /\ <>(pc = "stopped" /\ processed_count = succeeded)
    /\ [][pc = "stopped" =>
             /\ pc' = "stopped"
             /\ UNCHANGED <<fetchLog, detailLog, units, files, processed_count>>]_vars

\* A text of the letter and newlines that begins and ends with the letter:
\* nothing but the collapse of blank lines works on it.
Plain(text) ==
    /\ text # <<>>
    /\ \A k \in DOMAIN text : text[k] \in {LF, "a"}
    /\ text[1] = "a"
    /\ text[Len(text)] = "a"

\* The text with every run of four or more blank lines, which is five or
\* more newlines, cut to two blank lines, which is three newlines.
RECURSIVE CollapseBlankLines(_)
CollapseBlankLines(text) ==
    IF text = <<>> THEN <<>>
    ELSE IF Head(text) # LF THEN <<Head(text)>> \o CollapseBlankLines(Tail(text))
    ELSE LET rest == lstrip(text, {LF})
             run == Len(text) - Len(rest)
         IN (IF run >= 5 THEN <<LF, LF, LF>> ELSE SubSeq(text, 1, run))
                \o CollapseBlankLines(rest)

\* C26: what clean_sparql_query returns for a text has every run of four or
\* more blank lines of the text cut to two and every shorter run as it was,
\* and has no line that ends with whitespace, no line of three or more
\* dashes alone and no line of three or more dashes with a caret behind
\* them.
C26_LinesClean ==
    Len(out) >= 1 =>
        /\ Plain(arg) => out[1] = CollapseBlankLines(arg)
        /\ out[1] # NoText =>
              \A k \in DOMAIN split(out[1]) :
                  LET line == split(out[1])[k]
                  IN /\ line = <<>> \/ line[Len(line)] \notin Whitespace
                     /\ ~IsDashesLine(line)
                     /\ ~IsCaretMarker(line)

====
